---- MODULE Spec2Model ----
(***************************************************************************)
(* Model of the Feedparser sensor integration                              *)
(* (custom_components/feedparser): the FeedParserSensor entity, its poll   *)
(* routine update(), the record shaping routines, the date fallback chain, *)
(* the configuration flow's user step, the options flow and the reload of  *)
(* a config entry after a change of its options.                           *)
(*                                                                         *)
(* Python values are modelled as tagged records:                           *)
(*   str   [kind |-> "str",  val |-> sequence of symbols]                  *)
(*   None  [kind |-> "none"]                                               *)
(*   dict  [kind |-> "dict", val |-> function from field name to value]    *)
(*   list  [kind |-> "list", val |-> sequence of values]                   *)
(* A str is a sequence of symbols.  The symbols the image regular          *)
(* expression looks at are separate symbols, every other symbol is a run   *)
(* of characters without a newline, "<", ">" or a double quote.            *)
(***************************************************************************)
EXTENDS Integers, Sequences, FiniteSets, TLC

\* ------------------------------------------------------------------------
\* Bounds of the model
\* ------------------------------------------------------------------------
MaxEntries == 2

MaxTopN == 1

\* ------------------------------------------------------------------------
\* Python values
\* ------------------------------------------------------------------------
Str(s) == [kind |-> "str", val |-> s]

NoneV == [kind |-> "none"]

Dict(d) == [kind |-> "dict", val |-> d]

List(l) == [kind |-> "list", val |-> l]

IntV(n) == [kind |-> "int", val |-> n]

EmptyDict == [k \in {} |-> NoneV]

\* bool(value)
Truthy(v) ==
    CASE v.kind = "none" -> FALSE
      [] v.kind = "str" -> v.val # <<>>
      [] v.kind = "int" -> v.val # 0
      [] v.kind = "list" -> v.val # <<>>
      [] v.kind = "dict" -> DOMAIN v.val # {}

\* mapping.get(key): the value, or None when the key is absent
Get(d, k) == IF k \in DOMAIN d THEN d[k] ELSE NoneV

\* a or b
Or(a, b) == IF Truthy(a) THEN a ELSE b

\* (value or "").startswith(prefix), prefix a single symbol
StartsWith(v, prefix) ==
    /\ v.kind = "str"
    /\ v.val # <<>>
    /\ v.val[1] = prefix

\* isinstance(value, (str, int, float, bool))
IsScalar(v) == v.kind \in {"str", "int"}

\* dict[key] = value
With(rec, k, v) == [x \in (DOMAIN rec) \cup {k} |-> IF x = k THEN v ELSE rec[x]]

\* the outcome of a call: a returned value or a raised exception
Return(v) == [raised |-> FALSE, val |-> v]

Raise(e) == [raised |-> TRUE, exc |-> e]

\* ------------------------------------------------------------------------
\* const.py: IMAGE_REGEX = r"<img.+?src=\"(.+?)\".+?>"
\* ------------------------------------------------------------------------
\* "." matches every character, the newline only under re.S
Dot(sym, dotall) == dotall \/ sym # "\n"

AllDot(s, from, to, dotall) == \A x \in from..to : Dot(s[x], dotall)

Least(S) == CHOOSE x \in S : \A y \in S : x <= y

\* A match from position i is s[i] = "<img", the first ".+?" s[i+1..j-1],
\* s[j], s[j+1] = src=", the group "(.+?)" s[j+2..k-1], the closing quote
\* s[k], the last ".+?" s[k+1..m-1] and s[m] = ">".
\* the positions m of a ">" that ends a match whose closing quote is at k
TagEnds(s, k, dotall) ==
    {m \in (k + 2)..Len(s) : s[m] = ">" /\ AllDot(s, k + 1, m - 1, dotall)}

\* the positions k of a closing quote of a match whose src=" is at j
ClosingQuotes(s, j, dotall) ==
    {k \in (j + 3)..Len(s) :
        /\ s[k] = "\""
        /\ AllDot(s, j + 2, k - 1, dotall)
        /\ TagEnds(s, k, dotall) # {}}

\* the positions j of the src=" of a match that starts at i
SrcStarts(s, i, dotall) ==
    {j \in (i + 2)..(Len(s) - 1) :
        /\ s[j] = "src=" /\ s[j + 1] = "\""
        /\ AllDot(s, i + 1, j - 1, dotall)
        /\ ClosingQuotes(s, j, dotall) # {}}

MatchesAt(s, i, dotall) == s[i] = "<img" /\ SrcStarts(s, i, dotall) # {}

\* the lazy quantifiers take the shortest first gap, then the shortest
\* group, then the shortest last gap for which the whole pattern matches:
\* <<j, k, m>> of the match the regex engine finds from position i
LazyMatchAt(s, i, dotall) ==
    LET j == Least(SrcStarts(s, i, dotall))
        k == Least(ClosingQuotes(s, j, dotall))
        m == Least(TagEnds(s, k, dotall))
    IN <<j, k, m>>

\* the leftmost position >= from where the pattern matches, 0 when none
FirstMatchPos(s, from, dotall) ==
    LET starts == {i \in from..Len(s) : MatchesAt(s, i, dotall)}
    IN IF starts = {} THEN 0 ELSE Least(starts)

\* re.findall(IMAGE_REGEX, s, re.S): the groups of the non-overlapping
\* matches, left to right
RECURSIVE FindAllFrom(_, _)
FindAllFrom(s, from) ==
    LET i == FirstMatchPos(s, from, TRUE)
    IN IF i = 0 THEN <<>>
       ELSE LET t == LazyMatchAt(s, i, TRUE)
            IN <<SubSeq(s, t[1] + 2, t[2] - 1)>> \o FindAllFrom(s, t[3] + 1)

re_findall(s) == FindAllFrom(s, 1)

\* re.sub(IMAGE_REGEX, "", s): every non-overlapping match removed (no flags)
RECURSIVE SubFrom(_, _)
SubFrom(s, from) ==
    LET i == FirstMatchPos(s, from, FALSE)
    IN IF i = 0 THEN SubSeq(s, from, Len(s))
       ELSE LET t == LazyMatchAt(s, i, FALSE)
            IN SubSeq(s, from, i - 1) \o SubFrom(s, t[3] + 1)

re_sub(s) == SubFrom(s, 1)

\* ------------------------------------------------------------------------
\* State
\* ------------------------------------------------------------------------
VARIABLES
    date_format,            \* self._date_format
    show_topn,              \* self._show_topn
    remove_summary_image,   \* self._remove_summary_image
    inclusions,             \* self._inclusions
    exclusions,             \* self._exclusions
    local_time,             \* self._local_time
    channel,                \* self._channel
    entries,                \* self._entries
    native_value,           \* self._attr_native_value
    last_update,            \* the last call of update(): its inputs, the
                            \* snapshot it started from and how it ended
    call,                   \* the last direct call of a shaping routine, or
                            \* the last lifecycle call of the host
    config_entries,         \* the host's config entries of this domain
    flow_result             \* what the last config flow step returned

vars == <<date_format, show_topn, remove_summary_image, inclusions, exclusions,
          local_time, channel, entries, native_value, last_update, call,
          config_entries, flow_result>>

config_vars == <<date_format, show_topn, remove_summary_image, inclusions,
                 exclusions, local_time>>

snapshot_vars == <<channel, entries, native_value>>

flow_vars == <<config_entries, flow_result>>

\* ------------------------------------------------------------------------
\* Dates.  A datetime is [wall, aware, off, named]: the wall-clock hour, whether
\* it has a tzinfo, its UTC offset in hours and whether tzname() is set.
\* ------------------------------------------------------------------------
DEFAULT_DATE_FORMAT == "%a, %b %d %I:%M %p"

DEFAULT_TOPN == 9999

\* the host's configured time zone, as dt.as_local applies it (UTC+2)
DEFAULT_TIME_ZONE == 2

DateTime(w, a, o, n) == [wall |-> w, aware |-> a, off |-> o, named |-> n]

\* the date strings of the feeds
DATE_RFC822 == <<"Mon, 01 Jan 2024 10:00:00 +0100">>

DATE_RFC822_NAIVE == <<"Mon, 01 Jan 2024 10:00:00 -0000">>

DATE_ISO == <<"2024-01-01T12:00:00+03:00">>

DATE_ISO_NAIVE == <<"2024-01-01 12:00">>

DATE_GARBAGE == <<"not a date">>

DATE_EMPTY == <<>>

DATE_OVERFLOW == <<"Mon, 01 Jan 99999999999 00:00:00 +0000">>

DateStrings == {DATE_RFC822, DATE_RFC822_NAIVE, DATE_ISO, DATE_ISO_NAIVE,
                DATE_GARBAGE, DATE_EMPTY, DATE_OVERFLOW}

\* what dt.utcnow() can return
Instants == {500, 501}

\* email.utils.parsedate_to_datetime(date): an RFC-822 date gives a datetime
\* (naive for the zone -0000), a year beyond a C int raises OverflowError,
\* anything else raises ValueError
parsedate_to_datetime(date) ==
    CASE date.kind # "str" -> Raise("ValueError")
      [] date.val = DATE_RFC822 -> Return(DateTime(10, TRUE, 1, TRUE))
      [] date.val = DATE_RFC822_NAIVE -> Return(DateTime(10, FALSE, 0, FALSE))
      [] date.val = DATE_OVERFLOW -> Raise("OverflowError")
      [] OTHER -> Raise("ValueError")

\* dateutil.parser.parse(date): a tzoffset without a name for an ISO date with
\* an offset, ParserError for text that is no date, TypeError for a non-string
parser_parse(date) ==
    CASE date.kind # "str" -> Raise("TypeError")
      [] date.val = DATE_RFC822 -> Return(DateTime(10, TRUE, 1, FALSE))
      [] date.val = DATE_RFC822_NAIVE -> Return(DateTime(10, TRUE, 0, TRUE))
      [] date.val = DATE_ISO -> Return(DateTime(12, TRUE, 3, FALSE))
      [] date.val = DATE_ISO_NAIVE -> Return(DateTime(12, FALSE, 0, FALSE))
      [] OTHER -> Raise("ParserError")

\* dt.as_utc / dt.as_local: the same instant on another wall clock
as_utc(d) == DateTime(d.wall - d.off, TRUE, 0, TRUE)

as_local(d) == DateTime(d.wall - d.off + DEFAULT_TIME_ZONE, TRUE, DEFAULT_TIME_ZONE, TRUE)

\* dt.utcnow() at instant now
utcnow(now) == DateTime(now, TRUE, 0, TRUE)

\* lines 349-366 of _parse_date: the zone defaults and the conversion
normalize_tz(parsed_time) ==
    LET with_tz == IF ~parsed_time.aware
                   THEN DateTime(parsed_time.wall, TRUE, 0, TRUE)
                   ELSE parsed_time
        with_name == IF ~with_tz.named
                     THEN DateTime(with_tz.wall, TRUE, with_tz.off, TRUE)
                     ELSE with_tz
    IN IF local_time THEN as_local(with_name) ELSE as_utc(with_name)

\* FeedParserSensor._parse_date
_parse_date(date, now) ==
    LET first == parsedate_to_datetime(date)
        second == parser_parse(date)
    IN IF ~first.raised THEN Return(normalize_tz(first.val))
       ELSE IF first.exc \notin {"ValueError", "TypeError"} THEN first
       ELSE IF ~second.raised THEN Return(normalize_tz(second.val))
       ELSE IF second.exc \notin {"ParserError", "TypeError"} THEN second
       ELSE Return(normalize_tz(utcnow(now)))

\* datetime.strftime(format): a text fixed by the format and the wall clock
strftime(d, format) == Str(<<format, ToString(d.wall)>>)

\* ------------------------------------------------------------------------
\* Record shaping
\* ------------------------------------------------------------------------
DateKeys == {"published", "updated", "created", "expired"}

\* "parsed" in key, over the keys of the feeds
KeyContainsParsed(key) == key \in {"published_parsed", "updated_parsed", "parsed_by"}

\* key.endswith("_detail") or key == "detail", over the keys of the feeds
KeyIsDetail(key) == key \in {"title_detail", "summary_detail", "detail"}

\* the key pass without its test of the exclusions
SkipEntryKey_NoExclusions(key) ==
    \/ (inclusions # {} /\ key \notin inclusions)
    \/ KeyContainsParsed(key)
    \/ KeyIsDetail(key)

\* the condition of the "continue" of the key pass of _generate_sensor_entry
SkipEntryKey(key) ==
    \/ (inclusions # {} /\ key \notin inclusions)
    \/ KeyContainsParsed(key)
    \/ KeyIsDetail(key)
    \/ key \in exclusions

\* the condition of the "continue" of the key pass of _generate_channel_info
SkipChannelKey(key) ==
    \/ (inclusions # {} /\ key \notin inclusions)
    \/ KeyContainsParsed(key)
    \/ KeyIsDetail(key)
    \/ key \in exclusions
    \/ key = "image"

\* the first of the indexes at which a loop over a list returns, 0 when
\* it returns at none
FirstOf(hits) == IF hits = {} THEN 0 ELSE Least(hits)

IsImageContent(item) ==
    /\ Truthy(Get(item, "url"))
    /\ \/ Get(item, "medium") = Str(<<"image">>)
       \/ StartsWith(Or(Get(item, "type"), Str(<<>>)), "image/")

HasUrl(item) == Truthy(Get(item, "url"))

IsImageEnclosure(enc) ==
    /\ Truthy(Or(Get(enc, "href"), Get(enc, "url")))
    /\ StartsWith(Or(Get(enc, "type"), Str(<<>>)), "image/")

IsAudioContent(item) ==
    /\ Truthy(Get(item, "url"))
    /\ StartsWith(Or(Get(item, "type"), Str(<<>>)), "audio/")

IsAudioEnclosure(enc) ==
    /\ Truthy(Or(Get(enc, "href"), Get(enc, "url")))
    /\ StartsWith(Or(Get(enc, "type"), Str(<<>>)), "audio/")

\* the list under key when it is there and not empty, else the empty list
ListOf(feed_entry, key) ==
    IF Truthy(Get(feed_entry, key)) THEN feed_entry[key].val ELSE <<>>

\* the image probes with the thumbnails looked at first
_process_image_ThumbnailFirst(feed_entry) ==
    LET content == ListOf(feed_entry, "media_content")
        thumbs == ListOf(feed_entry, "media_thumbnail")
        encs == ListOf(feed_entry, "enclosures")
        c == FirstOf({i \in 1..Len(content) : IsImageContent(content[i])})
        t == FirstOf({i \in 1..Len(thumbs) : HasUrl(thumbs[i])})
        e == FirstOf({i \in 1..Len(encs) : IsImageEnclosure(encs[i])})
        images == IF "summary" \in DOMAIN feed_entry
                  THEN re_findall(feed_entry["summary"].val)
                  ELSE <<>>
    IN IF t # 0 THEN Get(thumbs[t], "url")
       ELSE IF c # 0 THEN Get(content[c], "url")
       ELSE IF e # 0 THEN Or(Get(encs[e], "href"), Get(encs[e], "url"))
       ELSE IF images # <<>> THEN Str(images[1])
       ELSE NoneV

\* FeedParserSensor._process_image
_process_image(feed_entry) ==
    LET content == ListOf(feed_entry, "media_content")
        thumbs == ListOf(feed_entry, "media_thumbnail")
        encs == ListOf(feed_entry, "enclosures")
        c == FirstOf({i \in 1..Len(content) : IsImageContent(content[i])})
        t == FirstOf({i \in 1..Len(thumbs) : HasUrl(thumbs[i])})
        e == FirstOf({i \in 1..Len(encs) : IsImageEnclosure(encs[i])})
        images == IF "summary" \in DOMAIN feed_entry
                  THEN re_findall(feed_entry["summary"].val)
                  ELSE <<>>
    IN IF c # 0 THEN Get(content[c], "url")
       ELSE IF t # 0 THEN Get(thumbs[t], "url")
       ELSE IF e # 0 THEN Or(Get(encs[e], "href"), Get(encs[e], "url"))
       ELSE IF images # <<>> THEN Str(images[1])
       ELSE NoneV

\* FeedParserSensor._process_audio
_process_audio(feed_entry) ==
    LET content == ListOf(feed_entry, "media_content")
        encs == ListOf(feed_entry, "enclosures")
        c == FirstOf({i \in 1..Len(content) : IsAudioContent(content[i])})
        e == FirstOf({i \in 1..Len(encs) : IsAudioEnclosure(encs[i])})
    IN IF c # 0 THEN Get(content[c], "url")
       ELSE IF e # 0 THEN Or(Get(encs[e], "href"), Get(encs[e], "url"))
       ELSE NoneV

\* FeedParserSensor._process_link
_process_link(feed_entry) ==
    IF "links" \in DOMAIN feed_entry
    THEN IF feed_entry["links"].val = <<>> THEN Raise("IndexError")
         ELSE IF "href" \notin DOMAIN feed_entry["links"].val[1] THEN Raise("KeyError")
         ELSE Return(feed_entry["links"].val[1]["href"])
    ELSE Return(Str(<<>>))

\* the key pass of _generate_sensor_entry (lines 248-262)
EntryKeyPass(feed_entry, now) ==
    LET kept == {k \in DOMAIN feed_entry : ~SkipEntryKey(k)}
        failed == {k \in kept \cap DateKeys : _parse_date(feed_entry[k], now).raised}
        stored == {k \in kept : \/ k \in DateKeys
                                \/ k = "image"
                                \/ IsScalar(feed_entry[k])}
    IN IF failed # {}
       THEN _parse_date(feed_entry[CHOOSE k \in failed : TRUE], now)
       ELSE IF "image" \in kept \ DateKeys /\ feed_entry["image"].kind # "dict"
       THEN Raise("AttributeError")
       ELSE Return([k \in stored |->
                CASE k \in DateKeys ->
                        strftime(_parse_date(feed_entry[k], now).val, date_format)
                  [] k = "image" -> Get(feed_entry[k].val, "href")
                  [] OTHER -> feed_entry[k]])

\* the image fallback for a key of the inclusions, excluded or not
WithImage_InclusionFirst(feed_entry, sensor_entry) ==
    IF /\ ("image" \in inclusions \/ "image" \notin exclusions)
       /\ "image" \notin DOMAIN sensor_entry
       /\ Truthy(_process_image(feed_entry))
    THEN With(sensor_entry, "image", _process_image(feed_entry))
    ELSE sensor_entry

\* lines 264-269: the image fallback
WithImage(feed_entry, sensor_entry) ==
    IF /\ "image" \notin exclusions
       /\ "image" \notin DOMAIN sensor_entry
       /\ Truthy(_process_image(feed_entry))
    THEN With(sensor_entry, "image", _process_image(feed_entry))
    ELSE sensor_entry

\* lines 270-275: the audio fallback
WithAudio(feed_entry, sensor_entry) ==
    IF /\ "audio" \notin exclusions
       /\ "audio" \notin DOMAIN sensor_entry
       /\ Truthy(_process_audio(feed_entry))
    THEN With(sensor_entry, "audio", _process_audio(feed_entry))
    ELSE sensor_entry

\* lines 276-281: the link fallback
WithLink(feed_entry, sensor_entry) ==
    IF "link" \notin exclusions /\ "link" \notin DOMAIN sensor_entry
    THEN LET processed_link == _process_link(feed_entry)
         IN IF processed_link.raised THEN processed_link
            ELSE IF Truthy(processed_link.val)
            THEN Return(With(sensor_entry, "link", processed_link.val))
            ELSE Return(sensor_entry)
    ELSE Return(sensor_entry)

\* lines 282-287: the <img> tags taken out of the summary
WithoutSummaryImage(sensor_entry) ==
    IF remove_summary_image /\ "summary" \in DOMAIN sensor_entry
    THEN With(sensor_entry, "summary", Str(re_sub(sensor_entry["summary"].val)))
    ELSE sensor_entry

\* FeedParserSensor._generate_sensor_entry
_generate_sensor_entry(feed_entry, now) ==
    LET pass == EntryKeyPass(feed_entry, now)
        linked == WithLink(feed_entry, WithAudio(feed_entry, WithImage(feed_entry, pass.val)))
    IN IF pass.raised THEN pass
       ELSE IF linked.raised THEN linked
       ELSE Return(WithoutSummaryImage(linked.val))

\* lines 312-320 of _generate_channel_info: the channel image
ChannelImage(feed_info) ==
    LET image == IF "image" \in DOMAIN feed_info THEN feed_info["image"].val ELSE EmptyDict
        image_url == Or(Get(image, "href"), Get(image, "url"))
    IN IF ~Truthy(image_url) /\ Truthy(Get(feed_info, "logo"))
       THEN feed_info["logo"]
       ELSE image_url

\* FeedParserSensor._generate_channel_info
_generate_channel_info(feed_info, now) ==
    LET kept == {k \in DOMAIN feed_info : ~SkipChannelKey(k)}
        failed == {k \in kept \cap DateKeys : _parse_date(feed_info[k], now).raised}
        stored == {k \in kept : k \in DateKeys \/ IsScalar(feed_info[k])}
        channel_info == [k \in stored |->
                IF k \in DateKeys
                THEN strftime(_parse_date(feed_info[k], now).val, date_format)
                ELSE feed_info[k]]
    IN IF failed # {}
       THEN _parse_date(feed_info[CHOOSE k \in failed : TRUE], now)
       ELSE IF "image" \notin exclusions /\ Truthy(ChannelImage(feed_info))
       THEN Return(With(channel_info, "image", ChannelImage(feed_info)))
       ELSE Return(channel_info)

\* ------------------------------------------------------------------------
\* The poll: FeedParserSensor.update
\* ------------------------------------------------------------------------
\* what s.get(self._feed) and res.raise_for_status() can do
FetchOutcomes == {"ok", "ConnectionError", "HTTPError"}

\* the last call of update(): how it ended, and the feed of the last parse
UpdateRecord(result, exc, fetched, parsed_feed) ==
    [result |-> result, exc |-> exc, fetched |-> fetched, parsed_feed |-> parsed_feed]

NoFeed == [feed |-> EmptyDict, entries |-> <<>>]

\* the number of entries to show, without the cap
TopCount_NoCap(parsed_feed) == Len(parsed_feed.entries)

\* lines 214-218: the number of entries to show
TopCount(parsed_feed) ==
    IF Len(parsed_feed.entries) > show_topn
    THEN show_topn
    ELSE Len(parsed_feed.entries)

\* FeedParserSensor._generate_entries: one outcome per shown entry
_generate_entries(parsed_feed, count, now) ==
    [i \in 1..count |-> _generate_sensor_entry(parsed_feed.entries[i], now)]

\* lines 193-194: s.get or raise_for_status raises, update stops there
FetchFailed(response) ==
    /\ UNCHANGED snapshot_vars
    /\ last_update' = UpdateRecord("raised", response, FALSE, last_update.parsed_feed)

\* the rebuild without the clear of lines 197-198: the channel info is
\* merged into the old channel, the records are appended to the old list
Parsed_NoClear(parsed_feed, now) ==
    LET channel_info == _generate_channel_info(parsed_feed.feed, now)
        count == TopCount(parsed_feed)
        generated == _generate_entries(parsed_feed, count, now)
        failed == {i \in 1..count : generated[i].raised}
    IN IF DOMAIN parsed_feed.feed = {}
       THEN /\ UNCHANGED <<channel, entries>>
            /\ native_value' = NoneV
            /\ last_update' = UpdateRecord("returned", "", TRUE, parsed_feed)
       ELSE IF channel_info.raised
       THEN /\ UNCHANGED snapshot_vars
            /\ last_update' = UpdateRecord("raised", channel_info.exc, TRUE, parsed_feed)
       ELSE IF parsed_feed.entries = <<>>
       THEN /\ channel' = [k \in (DOMAIN channel) \cup (DOMAIN channel_info.val) |->
                              IF k \in DOMAIN channel_info.val
                              THEN channel_info.val[k]
                              ELSE channel[k]]
            /\ UNCHANGED entries
            /\ native_value' = IntV(0)
            /\ last_update' = UpdateRecord("returned", "", TRUE, parsed_feed)
       ELSE IF failed # {}
       THEN /\ channel' = [k \in (DOMAIN channel) \cup (DOMAIN channel_info.val) |->
                              IF k \in DOMAIN channel_info.val
                              THEN channel_info.val[k]
                              ELSE channel[k]]
            /\ UNCHANGED entries
            /\ native_value' = IntV(count)
            /\ last_update' = UpdateRecord("raised", generated[Least(failed)].exc,
                                           TRUE, parsed_feed)
       ELSE /\ channel' = [k \in (DOMAIN channel) \cup (DOMAIN channel_info.val) |->
                              IF k \in DOMAIN channel_info.val
                              THEN channel_info.val[k]
                              ELSE channel[k]]
            /\ entries' = entries \o [i \in 1..count |-> generated[i].val]
            /\ native_value' = IntV(count)
            /\ last_update' = UpdateRecord("returned", "", TRUE, parsed_feed)

\* lines 195-229: the feed was fetched and parsed
Parsed(parsed_feed, now) ==
    LET channel_info == _generate_channel_info(parsed_feed.feed, now)
        count == TopCount(parsed_feed)
        generated == _generate_entries(parsed_feed, count, now)
        failed == {i \in 1..count : generated[i].raised}
    IN IF DOMAIN parsed_feed.feed = {}
       THEN \* lines 197-203
            /\ channel' = EmptyDict
            /\ entries' = <<>>
            /\ native_value' = NoneV
            /\ last_update' = UpdateRecord("returned", "", TRUE, parsed_feed)
       ELSE IF channel_info.raised
       THEN \* line 205 raises after the clear of lines 197-198
            /\ channel' = EmptyDict
            /\ entries' = <<>>
            /\ UNCHANGED native_value
            /\ last_update' = UpdateRecord("raised", channel_info.exc, TRUE, parsed_feed)
       ELSE IF parsed_feed.entries = <<>>
       THEN \* lines 207-210
            /\ channel' = channel_info.val
            /\ entries' = <<>>
            /\ native_value' = IntV(0)
            /\ last_update' = UpdateRecord("returned", "", TRUE, parsed_feed)
       ELSE IF failed # {}
       THEN \* line 224 raises after the state is set at lines 214-218
            /\ channel' = channel_info.val
            /\ entries' = <<>>
            /\ native_value' = IntV(count)
            /\ last_update' = UpdateRecord("raised", generated[Least(failed)].exc,
                                           TRUE, parsed_feed)
       ELSE /\ channel' = channel_info.val
            /\ entries' = [i \in 1..count |-> generated[i].val]
            /\ native_value' = IntV(count)
            /\ last_update' = UpdateRecord("returned", "", TRUE, parsed_feed)

\* a poll that clears the snapshot before it fetches
update_ClearBeforeFetch(response, parsed_feed, now) ==
    /\ UNCHANGED <<config_vars, call, flow_vars>>
    /\ IF response # "ok"
       THEN /\ channel' = EmptyDict
            /\ entries' = <<>>
            /\ UNCHANGED native_value
            /\ last_update' = UpdateRecord("raised", response, FALSE,
                                           last_update.parsed_feed)
       ELSE Parsed(parsed_feed, now)

\* FeedParserSensor.update
update(response, parsed_feed, now) ==
    /\ UNCHANGED <<config_vars, call, flow_vars>>
    /\ IF response # "ok" THEN FetchFailed(response) ELSE Parsed(parsed_feed, now)

\* ------------------------------------------------------------------------
\* The feeds of the polls
\* ------------------------------------------------------------------------
TITLE == Str(<<"Title">>)

URL_LINK == Str(<<"https://example.org/1">>)

URL_LINK2 == Str(<<"https://example.org/2">>)

\* <img src="x.png"/>
SUMMARY_IMG_SLASH == <<"<img", " ", "src=", "\"", "x.png", "\"", "/", ">">>

\* <img src="x.png">
SUMMARY_IMG_BARE == <<"<img", " ", "src=", "\"", "x.png", "\"", ">">>

LINK1 == [href |-> URL_LINK, rel |-> Str(<<"alternate">>)]

LINK2 == [href |-> URL_LINK2, rel |-> Str(<<"related">>)]

ENTRY_PLAIN ==
    [title |-> TITLE, link |-> URL_LINK, links |-> List(<<LINK1>>),
     published |-> Str(DATE_RFC822), summary |-> Str(<<"text">> \o SUMMARY_IMG_SLASH)]

IMAGE_CONTENT == [url |-> Str(<<"a.jpg">>), medium |-> Str(<<"image">>)]

ENTRY_MEDIA ==
    [title |-> Str(<<"Other">>), links |-> List(<<LINK2, LINK1>>),
     media_content |-> List(<<IMAGE_CONTENT>>)]

ENTRY_NO_LINKS ==
    [title |-> TITLE, links |-> List(<<>>)]

PollEntries == {ENTRY_PLAIN, ENTRY_MEDIA, ENTRY_NO_LINKS}

CHANNEL_PLAIN == [title |-> TITLE, link |-> URL_LINK, updated |-> Str(DATE_RFC822)]

CHANNEL_BAD_DATE == [title |-> TITLE, updated |-> Str(DATE_OVERFLOW)]

PollChannels == {EmptyDict, CHANNEL_PLAIN, CHANNEL_BAD_DATE}

\* what dt.utcnow() returns during the polls
PollInstants == {500}

\* the sequences over S of length at most n
SeqsUpTo(S, n) == UNION {[1..m -> S] : m \in 0..n}

PollFeeds ==
    {[feed |-> c, entries |-> es] : c \in PollChannels, es \in SeqsUpTo(PollEntries, MaxEntries)}

\* ------------------------------------------------------------------------
\* The configuration flow: FeedparserConfigFlow.async_step_user
\* ------------------------------------------------------------------------
\* what validate_url can do: return, or raise from requests.get or from
\* raise_for_status
CheckOutcomes == {"ok", "ConnectionError", "Timeout", "HTTPError"}

FeedUrls == {"https://a.example/rss", "https://b.example/rss", "https://c.example/rss"}

\* what the user submits in the form of the user step
FlowInputs ==
    {[name |-> n, feed_url |-> u, show_topn |-> t] :
        n \in {"News", "Blog"}, u \in FeedUrls, t \in {0, DEFAULT_TOPN}}

\* the result of a step, with the input of the step and what the
\* reachability check did ("none" when the step made no check)
FlowResult(user_input, check, type, errors) ==
    [user_input |-> user_input, check |-> check, type |-> type, errors |-> errors]

NoErrors == [k \in {} |-> ""]

\* no step of a flow was made yet
NoFlow == FlowResult(NoneV, "none", "none", NoErrors)

\* the user step that makes the config entry whatever the check did
async_step_user_IgnoreCheck(user_input, check) ==
    /\ UNCHANGED <<config_vars, snapshot_vars, last_update, call>>
    /\ IF user_input = NoneV
       THEN /\ flow_result' = FlowResult(user_input, "none", "form", NoErrors)
            /\ UNCHANGED config_entries
       ELSE IF \E e \in config_entries : e.unique_id = user_input.feed_url
       THEN /\ flow_result' = FlowResult(user_input, check, "abort", NoErrors)
            /\ UNCHANGED config_entries
       ELSE /\ flow_result' = FlowResult(user_input, check, "create_entry", NoErrors)
            /\ config_entries' = config_entries \cup
                    {[unique_id |-> user_input.feed_url, title |-> user_input.name,
                      data |-> user_input]}

\* FeedparserConfigFlow.async_step_user
async_step_user(user_input, check) ==
    /\ UNCHANGED <<config_vars, snapshot_vars, last_update, call>>
    /\ IF user_input = NoneV
       THEN \* line 53 is false: the empty form
            /\ flow_result' = FlowResult(user_input, "none", "form", NoErrors)
            /\ UNCHANGED config_entries
       ELSE IF check # "ok"
       THEN \* lines 69-70, then the form of lines 78-80
            /\ flow_result' = FlowResult(user_input, check, "form",
                                         [base |-> "cannot_connect"])
            /\ UNCHANGED config_entries
       ELSE IF \E e \in config_entries : e.unique_id = user_input.feed_url
       THEN \* line 73: the flow is aborted, the feed is configured already
            /\ flow_result' = FlowResult(user_input, check, "abort", NoErrors)
            /\ UNCHANGED config_entries
       ELSE \* lines 74-76
            /\ flow_result' = FlowResult(user_input, check, "create_entry", NoErrors)
            /\ config_entries' = config_entries \cup
                    {[unique_id |-> user_input.feed_url, title |-> user_input.name,
                      data |-> user_input]}

\* ------------------------------------------------------------------------
\* Specification of the polled sensor
\* ------------------------------------------------------------------------
NoCall == [fn |-> "none"]

\* the filters of the polled sensors: the defaults, the configuration of
\* the tests (src/tests/constants.py), and two with exclusions
PollFilters ==
    {[inclusions |-> {}, exclusions |-> {}, remove_summary_image |-> FALSE],
     [inclusions |-> {"image", "title", "link", "published", "summary"},
      exclusions |-> {}, remove_summary_image |-> TRUE],
     [inclusions |-> {}, exclusions |-> {"link"}, remove_summary_image |-> FALSE],
     [inclusions |-> {"title", "link"}, exclusions |-> {"link", "image"},
      remove_summary_image |-> TRUE]}

\* FeedParserSensor.__init__
SensorInit ==
    /\ channel = EmptyDict
    /\ entries = <<>>
    /\ native_value = NoneV
    /\ last_update = UpdateRecord("none", "", FALSE, NoFeed)

Init ==
    /\ date_format = DEFAULT_DATE_FORMAT
    /\ show_topn \in 0..MaxTopN
    /\ \E f \in PollFilters :
            /\ inclusions = f.inclusions
            /\ exclusions = f.exclusions
            /\ remove_summary_image = f.remove_summary_image
    /\ local_time = FALSE
    /\ SensorInit
    /\ call = NoCall
    /\ config_entries = {}
    /\ flow_result = NoFlow

\* a poll whose fetch fails: no feed is parsed
UpdateFetchError ==
    \E response \in FetchOutcomes \ {"ok"} : update(response, NoFeed, 0)

\* a poll whose fetch succeeds
UpdateFetched ==
    \E parsed_feed \in PollFeeds, now \in PollInstants : update("ok", parsed_feed, now)

Update == UpdateFetchError \/ UpdateFetched

Next == Update

Spec == Init /\ [][Next]_vars

\* ------------------------------------------------------------------------
\* Direct calls of the shaping routines
\* ------------------------------------------------------------------------
CallRecord(fn, arg, now, ret) == [fn |-> fn, arg |-> arg, now |-> now, ret |-> ret]

\* the two mappings put together, g over f
Merge(f, g) ==
    [k \in (DOMAIN f) \cup (DOMAIN g) |-> IF k \in DOMAIN g THEN g[k] ELSE f[k]]

\* the mappings with at most the key, under one of the values
Opt(key, values) == {EmptyDict} \cup {[k \in {key} |-> v] : v \in values}

\* <img{gap1}src="x.png"{gap2}>
ImgTag(gap1, gap2) ==
    <<"<img">> \o gap1 \o <<"src=", "\"", "x.png", "\"">> \o gap2 \o <<">">>

TagGaps1 == {<<" ">>, <<"\n">>, <<" ", "alt=", "\"", "a", "\"", " ">>}

TagGaps2 == {<<>>, <<"/">>, <<" ">>, <<" ", "/">>, <<"\n">>}

TagPrefixes == {<<>>, <<"text">>}

TagSuffixes == {<<>>, <<"text">>, <<"<p", ">", "more", "</p", ">">>}

\* the summaries with one <img> tag, and two without
ShapeSummaries ==
    {p \o ImgTag(g1, g2) \o x :
        p \in TagPrefixes, g1 \in TagGaps1, g2 \in TagGaps2, x \in TagSuffixes}
    \cup {<<"text">>, <<>>, SUMMARY_IMG_SLASH \o SUMMARY_IMG_BARE}

AUDIO_CONTENT == [url |-> Str(<<"a.mp3">>), type |-> Str(<<"audio/", "mpeg">>)]

TYPED_IMAGE_CONTENT == [url |-> Str(<<"b.jpg">>), type |-> Str(<<"image/", "jpeg">>)]

NO_URL_CONTENT == [medium |-> Str(<<"image">>)]

THUMBNAIL == [url |-> Str(<<"t.jpg">>)]

NO_URL_THUMBNAIL == [width |-> Str(<<"100">>)]

IMAGE_ENCLOSURE == [href |-> Str(<<"e.jpg">>), type |-> Str(<<"image/", "jpeg">>)]

AUDIO_ENCLOSURE == [url |-> Str(<<"e.mp3">>), type |-> Str(<<"audio/", "mpeg">>)]

\* entries that differ in the keys of the key pass
KeyPassEntries ==
    {Merge(a, Merge(b, Merge(c, Merge(d, Merge(e, Merge(f, Merge(g, h))))))) :
        a \in Opt("title", {TITLE}),
        b \in Opt("parsed_by", {Str(<<"parser">>)}),
        c \in Opt("detail", {Str(<<"more">>)}),
        d \in Opt("title_detail", {Dict([type |-> Str(<<"text/plain">>)])}),
        e \in Opt("tags", {List(<<[term |-> Str(<<"news">>)]>>)}),
        f \in Opt("link", {URL_LINK}),
        g \in Opt("published", {Str(DATE_RFC822), Str(DATE_GARBAGE), Str(DATE_OVERFLOW)}),
        h \in Opt("image", {Dict([href |-> Str(<<"i.jpg">>)]), Dict(EmptyDict)})}

\* entries that differ in what the image and audio probes look at
ProbeEntries ==
    {Merge(a, Merge(b, Merge(c, Merge(d, e)))) :
        a \in Opt("media_content",
                  {List(<<>>), List(<<IMAGE_CONTENT>>), List(<<AUDIO_CONTENT>>),
                   List(<<NO_URL_CONTENT, AUDIO_CONTENT, TYPED_IMAGE_CONTENT>>),
                   List(<<TYPED_IMAGE_CONTENT, IMAGE_CONTENT>>)}),
        b \in Opt("media_thumbnail", {List(<<THUMBNAIL>>), List(<<NO_URL_THUMBNAIL>>)}),
        c \in Opt("enclosures",
                  {List(<<IMAGE_ENCLOSURE>>), List(<<AUDIO_ENCLOSURE>>),
                   List(<<AUDIO_ENCLOSURE, IMAGE_ENCLOSURE>>)}),
        d \in Opt("summary",
                  {Str(<<"text">>), Str(SUMMARY_IMG_SLASH), Str(SUMMARY_IMG_BARE)}),
        e \in Opt("image", {Dict([href |-> Str(<<"i.jpg">>)])})}

\* entries that differ in the summary
SummaryEntries == {[title |-> TITLE, summary |-> Str(x)] : x \in ShapeSummaries}

\* entries that differ in the links
LinkEntries ==
    {Merge(a, b) :
        a \in Opt("links", {List(<<>>), List(<<LINK1>>), List(<<LINK2, LINK1>>)}),
        b \in Opt("link", {URL_LINK})}

ShapeEntries ==
    KeyPassEntries \cup ProbeEntries \cup SummaryEntries \cup LinkEntries \cup PollEntries

ShapeChannels ==
    {Merge(a, Merge(b, Merge(c, Merge(d, e)))) :
        a \in Opt("title", {TITLE}),
        b \in Opt("updated", {Str(DATE_ISO), Str(DATE_OVERFLOW)}),
        c \in Opt("image", {Dict([href |-> Str(<<"c.jpg">>)]),
                            Dict([url |-> Str(<<"u.jpg">>)]), Dict(EmptyDict)}),
        d \in Opt("logo", {Str(<<"logo.png">>)}),
        e \in Opt("parsed_by", {Str(<<"parser">>)})}

ShapeDates == {Str(d) : d \in DateStrings} \cup {NoneV}

ShapeInclusions ==
    {{}, {"title", "summary"}, {"image", "title", "link", "published", "summary"},
     {"title", "image", "audio", "link", "detail", "parsed_by"}}

ShapeExclusions ==
    {{}, {"image"}, {"link", "audio", "summary"}, {"title", "image"}}

\* a sensor as constructed, before any poll and any call
InitShape ==
    /\ date_format = DEFAULT_DATE_FORMAT
    /\ show_topn = DEFAULT_TOPN
    /\ remove_summary_image \in BOOLEAN
    /\ inclusions \in ShapeInclusions
    /\ exclusions \in ShapeExclusions
    /\ local_time \in BOOLEAN
    /\ SensorInit
    /\ call = NoCall
    /\ config_entries = {}
    /\ flow_result = NoFlow

CallGenerateSensorEntry ==
    /\ call = NoCall
    /\ \E feed_entry \in ShapeEntries, now \in Instants :
            call' = CallRecord("_generate_sensor_entry", feed_entry, now,
                               _generate_sensor_entry(feed_entry, now))
    /\ UNCHANGED <<config_vars, snapshot_vars, last_update, flow_vars>>

CallGenerateChannelInfo ==
    /\ call = NoCall
    /\ \E feed_info \in ShapeChannels, now \in Instants :
            call' = CallRecord("_generate_channel_info", feed_info, now,
                               _generate_channel_info(feed_info, now))
    /\ UNCHANGED <<config_vars, snapshot_vars, last_update, flow_vars>>

CallParseDate ==
    /\ call = NoCall
    /\ \E date \in ShapeDates, now \in Instants :
            call' = CallRecord("_parse_date", date, now, _parse_date(date, now))
    /\ UNCHANGED <<config_vars, snapshot_vars, last_update, flow_vars>>

NextShape == CallGenerateSensorEntry \/ CallGenerateChannelInfo \/ CallParseDate

SpecShape == InitShape /\ [][NextShape]_vars

\* ------------------------------------------------------------------------
\* Specification of the configuration flow
\* ------------------------------------------------------------------------
\* the user opens the form
StepUserOpen == async_step_user(NoneV, "none")

\* the user submits the form
StepUserSubmit ==
    \E user_input \in FlowInputs, check \in CheckOutcomes :
        async_step_user(user_input, check)

InitFlow ==
    /\ date_format = DEFAULT_DATE_FORMAT
    /\ show_topn = DEFAULT_TOPN
    /\ remove_summary_image = FALSE
    /\ inclusions = {}
    /\ exclusions = {}
    /\ local_time = FALSE
    /\ SensorInit
    /\ call = NoCall
    /\ config_entries = {}
    /\ flow_result = NoFlow

NextFlow == StepUserOpen \/ StepUserSubmit

SpecFlow == InitFlow /\ [][NextFlow]_vars

\* ------------------------------------------------------------------------
\* The options of a config entry and the reload (__init__.py, sensor.py
\* async_setup_entry, config_flow.py FeedparserOptionsFlowHandler)
\* ------------------------------------------------------------------------
CONF_DATE_FORMAT == "date_format"

CONF_LOCAL_TIME == "local_time"

CONF_INCLUSIONS == "inclusions"

CONF_EXCLUSIONS == "exclusions"

CONF_SHOW_TOPN == "show_topn"

CONF_REMOVE_SUMMARY_IMG == "remove_summary_image"

\* the characters str.strip() takes off, as symbols
Whitespace == {" ", "\t"}

\* str.split(","): the pieces between the commas
RECURSIVE split(_)
split(s) ==
    LET commas == {i \in 1..Len(s) : s[i] = ","}
    IN IF commas = {} THEN <<s>>
       ELSE <<SubSeq(s, 1, Least(commas) - 1)>>
            \o split(SubSeq(s, Least(commas) + 1, Len(s)))

\* str.strip(): without the whitespace at both ends
strip(s) ==
    LET inked == {i \in 1..Len(s) : s[i] \notin Whitespace}
    IN IF inked = {} THEN <<>>
       ELSE SubSeq(s, Least(inked), CHOOSE x \in inked : \A y \in inked : y <= x)

\* the symbols of a str as one key
RECURSIVE Text(_)
Text(s) == IF s = <<>> THEN "" ELSE s[1] \o Text(Tail(s))

\* the "if x.strip()" of to_list
Stripped(s) == s # <<>>

\* to_list of sensor.py async_setup_entry: the list of the keys
to_list(val) ==
    IF val.kind = "str"
    THEN LET parts == split(val.val)
             items == SelectSeq([i \in 1..Len(parts) |-> strip(parts[i])], Stripped)
         IN [i \in 1..Len(items) |-> Text(items[i])]
    ELSE val.val

\* get_val that looks at the data of the entry before its options
get_val_DataFirst(options, config, key, default) ==
    IF key \in DOMAIN config THEN config[key]
    ELSE IF key \in DOMAIN options THEN options[key]
    ELSE default

\* get_val of sensor.py async_setup_entry:
\* options.get(key, config.get(key, default))
get_val(options, config, key, default) ==
    IF key \in DOMAIN options THEN options[key]
    ELSE IF key \in DOMAIN config THEN config[key]
    ELSE default

\* the items of a list as the set the membership tests of the sensor see
Items(l) == {l[i] : i \in 1..Len(l)}

\* the arguments async_setup_entry of sensor.py gives to FeedParserSensor
SensorArguments(entry) ==
    [date_format |->
        get_val(entry.options, entry.data, CONF_DATE_FORMAT, DEFAULT_DATE_FORMAT),
     show_topn |-> get_val(entry.options, entry.data, CONF_SHOW_TOPN, DEFAULT_TOPN),
     remove_summary_image |->
        get_val(entry.options, entry.data, CONF_REMOVE_SUMMARY_IMG, FALSE),
     inclusions |->
        to_list(get_val(entry.options, entry.data, CONF_INCLUSIONS, List(<<>>))),
     exclusions |->
        to_list(get_val(entry.options, entry.data, CONF_EXCLUSIONS, List(<<>>))),
     local_time |-> get_val(entry.options, entry.data, CONF_LOCAL_TIME, FALSE)]

\* a config entry of the host with its registered update listeners
ConfigEntry(unique_id, data, options, update_listeners) ==
    [unique_id |-> unique_id, title |-> data.name, data |-> data,
     options |-> options, update_listeners |-> update_listeners]

\* the lifecycle call the host made last: the handler, the entry and the
\* snapshot of the sensor that was unloaded
LifecycleCall(fn, entry_id, unloaded) ==
    [fn |-> fn, arg |-> entry_id, unloaded |-> unloaded]

\* async_unload_entry of __init__.py: the platforms are unloaded, and the
\* host runs the on-unload callback that removes the update listener
async_unload_entry(entry) ==
    ConfigEntry(entry.unique_id, entry.data, entry.options, 0)

\* async_setup_entry of __init__.py: the sensor platform is set up and the
\* update listener is registered
async_setup_entry(entry) ==
    ConfigEntry(entry.unique_id, entry.data, entry.options, entry.update_listeners + 1)

\* update_listener of __init__.py: hass.config_entries.async_reload unloads
\* the entry and sets it up again; async_setup_entry of sensor.py makes a
\* new FeedParserSensor from the data and the options of the entry.  (The
\* poll the host makes before it adds the entity is the next update.)
update_listener(entry) ==
    LET arguments == SensorArguments(entry)
    IN /\ config_entries' = {async_setup_entry(async_unload_entry(entry))}
       /\ date_format' = arguments.date_format
       /\ show_topn' = arguments.show_topn
       /\ remove_summary_image' = arguments.remove_summary_image
       /\ inclusions' = Items(arguments.inclusions)
       /\ exclusions' = Items(arguments.exclusions)
       /\ local_time' = arguments.local_time
       /\ channel' = EmptyDict
       /\ entries' = <<>>
       /\ native_value' = NoneV
       /\ last_update' = UpdateRecord("none", "", FALSE, NoFeed)
       /\ call' = LifecycleCall("update_listener", entry.unique_id,
                                [channel |-> channel, entries |-> entries])

\* the host's async_update_entry(entry, options=options): the options are
\* stored and, when they changed, every update listener of the entry runs
async_update_entry(entry, options) ==
    IF options # entry.options /\ entry.update_listeners > 0
    THEN update_listener(ConfigEntry(entry.unique_id, entry.data, options,
                                     entry.update_listeners))
    ELSE /\ config_entries' = {ConfigEntry(entry.unique_id, entry.data, options,
                                           entry.update_listeners)}
         /\ UNCHANGED <<config_vars, snapshot_vars, last_update, call>>

\* FeedparserOptionsFlowHandler.async_step_init: the form when nothing was
\* submitted, else the entry result whose data the host stores as the
\* options of the config entry
async_step_init(entry, user_input) ==
    IF user_input = NoneV
    THEN /\ flow_result' = FlowResult(user_input, "none", "form", NoErrors)
         /\ UNCHANGED <<config_vars, snapshot_vars, last_update, call, config_entries>>
    ELSE /\ flow_result' = FlowResult(user_input, "none", "create_entry", NoErrors)
         /\ async_update_entry(entry, user_input)

\* ------------------------------------------------------------------------
\* Specification of the options and the reload
\* ------------------------------------------------------------------------
\* what the options form and the data of an entry hold under inclusions
\* and exclusions: comma-separated text, or a list of keys
OPTION_TITLE_LINK == Str(<<"title", ",", " ", "link">>)

OPTION_RAGGED == Str(<<" ", "image", "\t", ",", ",", " ", ",", "title", " ">>)

OPTION_SPACED == Str(<<"media", " ", "content", ",", "link">>)

OPTION_EMPTY == Str(<<>>)

OPTION_LIST == List(<<"title", "summary">>)

OTHER_DATE_FORMAT == "%Y-%m-%d"

\* the data the user step stores, and the data of an entry that names
\* inclusions as a list
EntryData ==
    {[name |-> "News", feed_url |-> "https://a.example/rss"],
     [name |-> "News", feed_url |-> "https://a.example/rss",
      date_format |-> OTHER_DATE_FORMAT, show_topn |-> 0, local_time |-> TRUE,
      remove_summary_image |-> TRUE],
     [name |-> "News", feed_url |-> "https://a.example/rss",
      show_topn |-> 1, inclusions |-> OPTION_LIST, exclusions |-> OPTION_TITLE_LINK]}

\* the mappings with at most the key, under one of the raw values
OptOf(key, values) == {EmptyDict} \cup {[k \in {key} |-> v] : v \in values}

\* the options the host can be given: with and without each of four keys
EntryOptions ==
    {Merge(a, Merge(b, Merge(d, e))) :
        a \in OptOf(CONF_DATE_FORMAT, {DEFAULT_DATE_FORMAT}),
        b \in OptOf(CONF_SHOW_TOPN, {1}),
        d \in OptOf(CONF_INCLUSIONS, {OPTION_RAGGED, OPTION_LIST}),
        e \in OptOf(CONF_EXCLUSIONS, {OPTION_SPACED})}

\* what the options form submits: every key of its schema has a value
OptionsInputs ==
    {[date_format |-> DEFAULT_DATE_FORMAT, show_topn |-> 1, local_time |-> TRUE,
      remove_summary_image |-> FALSE, inclusions |-> i, exclusions |-> OPTION_EMPTY] :
        i \in {OPTION_EMPTY, OPTION_TITLE_LINK}}

\* the feeds of the polls of the reloaded sensor
OptionsFeeds == {[feed |-> CHANNEL_PLAIN, entries |-> <<ENTRY_MEDIA>>]}

\* an entry was set up: its sensor is as async_setup_entry made it
InitOptions ==
    /\ \E data \in EntryData :
        LET entry == async_setup_entry(ConfigEntry(data.feed_url, data, EmptyDict, 0))
            arguments == SensorArguments(entry)
        IN /\ config_entries = {entry}
           /\ date_format = arguments.date_format
           /\ show_topn = arguments.show_topn
           /\ remove_summary_image = arguments.remove_summary_image
           /\ inclusions = Items(arguments.inclusions)
           /\ exclusions = Items(arguments.exclusions)
           /\ local_time = arguments.local_time
    /\ SensorInit
    /\ call = NoCall
    /\ flow_result = NoFlow

\* the host polls the sensor
UpdateLoaded ==
    \E parsed_feed \in OptionsFeeds, now \in PollInstants : update("ok", parsed_feed, now)

\* the options of the entry are set through the host
OptionsUpdated ==
    \E entry \in config_entries, options \in EntryOptions :
        /\ async_update_entry(entry, options)
        /\ UNCHANGED flow_result

\* the options form is opened
StepInitOpen == \E entry \in config_entries : async_step_init(entry, NoneV)

\* the options form is submitted
StepInitSubmit ==
    \E entry \in config_entries, user_input \in OptionsInputs :
        async_step_init(entry, user_input)

NextOptions == UpdateLoaded \/ OptionsUpdated \/ StepInitOpen \/ StepInitSubmit

SpecOptions == InitOptions /\ [][NextOptions]_vars

\* ------------------------------------------------------------------------
\* Properties of the shaping routines
\* ------------------------------------------------------------------------
\* _generate_sensor_entry was called and returned a record
EntryShaped == call.fn = "_generate_sensor_entry" /\ ~call.ret.raised

\* _generate_channel_info was called and returned the channel info
ChannelShaped == call.fn = "_generate_channel_info" /\ ~call.ret.raised

SyntheticKeys == {"image", "audio", "link"}

\* C1: every key of a record made by _generate_sensor_entry, the synthetic
\* keys image, audio and link included, has no "parsed" in it, is no detail
\* key, is not in the exclusions and is in the inclusions when there are any.
C1_AllKeysFiltered ==
    EntryShaped =>
        \A key \in DOMAIN call.ret.val :
            /\ ~KeyContainsParsed(key)
            /\ ~KeyIsDetail(key)
            /\ key \notin exclusions
            /\ (inclusions = {} \/ key \in inclusions)

\* C1 as amended: as C1, but image, audio and link may be in the record
\* without being in the inclusions.
C1_KeysFilteredButSynthetic ==
    EntryShaped =>
        \A key \in DOMAIN call.ret.val :
            /\ ~KeyContainsParsed(key)
            /\ ~KeyIsDetail(key)
            /\ key \notin exclusions
            /\ (inclusions = {} \/ key \in inclusions \/ key \in SyntheticKeys)

\* the record of ENTRY_PLAIN under inclusions title and summary and the
\* exclusion image: published is dropped, the image of the summary is left
\* out, and the link of the links list is in the record
C1_Witness ==
    /\ EntryShaped
    /\ call.arg = ENTRY_PLAIN
    /\ inclusions = {"title", "summary"}
    /\ exclusions = {"image"}
    /\ DOMAIN call.ret.val = {"title", "summary", "link"}

\* C6: a key that is in the inclusions and in the exclusions is in no entry
\* record and in no channel info, from the key pass or from a fallback.
C6_ExclusionWins ==
    (EntryShaped \/ ChannelShaped) =>
        \A key \in inclusions \cap exclusions : key \notin DOMAIN call.ret.val

\* title and image are included and excluded, the entry has a title and an
\* image its media_content would give
C6_Witness ==
    /\ EntryShaped
    /\ {"title", "image"} \subseteq inclusions \cap exclusions
    /\ "title" \in DOMAIN call.arg
    /\ "media_content" \in DOMAIN call.arg
    /\ call.arg["media_content"] = List(<<IMAGE_CONTENT>>)

\* C7: with remove_summary_image set and a summary in the record, the
\* summary of the record has no "<img" in it, also for <img src="x.png">.
C7_NoImgLeftInSummary ==
    (EntryShaped /\ remove_summary_image /\ "summary" \in DOMAIN call.ret.val) =>
        \A i \in 1..Len(call.ret.val["summary"].val) :
            call.ret.val["summary"].val[i] # "<img"

\* the current time as _parse_date returns it
FormattedNow(now) ==
    IF local_time
    THEN DateTime(now + DEFAULT_TIME_ZONE, TRUE, DEFAULT_TIME_ZONE, TRUE)
    ELSE DateTime(now, TRUE, 0, TRUE)

\* C8: _parse_date never raises: when the RFC-822 parser fails the flexible
\* parser is tried, and when that fails too the result is the current time.
C8_ParseDateNeverRaises ==
    call.fn = "_parse_date" =>
        /\ ~call.ret.raised
        /\ (parsedate_to_datetime(call.arg).raised /\ parser_parse(call.arg).raised) =>
                call.ret.val = FormattedNow(call.now)

\* the items of the list under key, the empty list when there is none
C10_Items(feed_entry, key) ==
    IF key \in DOMAIN feed_entry /\ feed_entry[key].kind = "list"
    THEN feed_entry[key].val
    ELSE <<>>

C10_Filled(item, field) ==
    field \in DOMAIN item /\ item[field].kind = "str" /\ item[field].val # <<>>

C10_ImageType(item) == C10_Filled(item, "type") /\ item["type"].val[1] = "image/"

C10_ImageItem(item) ==
    /\ C10_Filled(item, "url")
    /\ \/ ("medium" \in DOMAIN item /\ item["medium"] = Str(<<"image">>))
       \/ C10_ImageType(item)

C10_Thumbnail(item) == C10_Filled(item, "url")

C10_ImageEnclosure(item) ==
    /\ C10_Filled(item, "href") \/ C10_Filled(item, "url")
    /\ C10_ImageType(item)

\* the images the four probes find, in the order of the probes
C10_Candidates(feed_entry) ==
    LET content == SelectSeq(C10_Items(feed_entry, "media_content"), C10_ImageItem)
        thumbs == SelectSeq(C10_Items(feed_entry, "media_thumbnail"), C10_Thumbnail)
        encs == SelectSeq(C10_Items(feed_entry, "enclosures"), C10_ImageEnclosure)
        found == IF "summary" \in DOMAIN feed_entry
                 THEN re_findall(feed_entry["summary"].val)
                 ELSE <<>>
    IN [i \in 1..Len(content) |-> content[i]["url"]]
       \o [i \in 1..Len(thumbs) |-> thumbs[i]["url"]]
       \o [i \in 1..Len(encs) |->
               IF C10_Filled(encs[i], "href") THEN encs[i]["href"] ELSE encs[i]["url"]]
       \o [i \in 1..Len(found) |-> Str(found[i])]

\* the key pass puts no image in the record
C10_NoImageFromKeyPass(feed_entry) ==
    \/ "image" \notin DOMAIN feed_entry
    \/ (inclusions # {} /\ "image" \notin inclusions)

C11_RecordValuesScalar ==
    EntryShaped =>
        \A key \in DOMAIN call.ret.val : call.ret.val[key].kind \in {"str", "int"}

\* the key pass of the call returned a record without the key link
C12_NoLinkFromKeyPass ==
    LET pass == EntryKeyPass(call.arg, call.now)
    IN ~pass.raised /\ "link" \notin DOMAIN pass.val

\* C12: with link not excluded and no link from the key pass, the call makes
\* a record whose link is the href of the first item of the links of the
\* entry when the entry has links, and the empty string when it has none.
C12_LinkFromLinks ==
    (/\ call.fn = "_generate_sensor_entry"
     /\ "link" \notin exclusions
     /\ C12_NoLinkFromKeyPass) =>
        /\ ~call.ret.raised
        /\ "link" \in DOMAIN call.ret.val
        /\ call.ret.val["link"] =
                IF "links" \in DOMAIN call.arg
                THEN call.arg["links"].val[1]["href"]
                ELSE Str(<<>>)

\* ------------------------------------------------------------------------
\* Properties of the polled sensor
\* ------------------------------------------------------------------------
\* C2: after any sequence of polls the entries list has at most show_topn
\* records and at most as many as the most recent parse produced entries,
\* for every top-N from 0 on.
C2_EntriesBounded ==
    /\ Len(entries) <= show_topn
    /\ Len(entries) <= Len(last_update.parsed_feed.entries)

\* a poll returned with more parsed entries than top-N, and the list is full
C2_Witness ==
    /\ last_update.result = "returned"
    /\ Len(last_update.parsed_feed.entries) > show_topn
    /\ show_topn > 0
    /\ Len(entries) = show_topn

\* C3: in every reachable state the numeric state of the sensor equals the
\* number of records of the entries attribute.
C3_StateEqualsEntryCount ==
    native_value.kind = "int" => native_value.val = Len(entries)

\* C4: a poll whose fetch fails raises the fetch error and leaves the channel,
\* the entries and the state exactly as they were; the snapshot changes only
\* in a poll whose fetch succeeded.
C4_FetchFailureKeepsSnapshot ==
    [][/\ UpdateFetchError =>
            /\ last_update'.result = "raised"
            /\ last_update'.exc \in FetchOutcomes \ {"ok"}
            /\ ~last_update'.fetched
       /\ (last_update'.result = "raised" /\ ~last_update'.fetched) =>
            /\ channel' = channel
            /\ entries' = entries
            /\ native_value' = native_value
       /\ (channel' # channel \/ entries' # entries \/ native_value' # native_value) =>
            last_update'.fetched]_vars

\* the fetch of a poll failed while the sensor showed entries
C4_Witness ==
    /\ last_update.result = "raised"
    /\ ~last_update.fetched
    /\ entries # <<>>
    /\ native_value = IntV(Len(entries))

\* C5: for every fetched feed whose parse yields zero entries, with or
\* without channel metadata, after the poll the state is 0, the entries list
\* is empty and update raised nothing.
C5_EmptyFeedIsZero ==
    (/\ last_update.result # "none"
     /\ last_update.fetched
     /\ last_update.parsed_feed.entries = <<>>) =>
        /\ native_value = IntV(0)
        /\ entries = <<>>
        /\ last_update.result = "returned"

\* min(top-N, count): the number of entries of the feed update shapes
C13_Count(parsed_feed) ==
    IF Len(parsed_feed.entries) < show_topn
    THEN Len(parsed_feed.entries)
    ELSE show_topn

\* C13: after every poll whose fetch succeeded, the channel and the entries
\* hold only data made of the feed of that poll and nothing of an earlier
\* poll: the channel is empty or the channel info of that feed, the i-th
\* record is the shaped i-th entry of that feed, and there are at most
\* min(top-N, count) records; a poll that returned leaves exactly the
\* channel info and exactly the shaped first min(top-N, count) entries; a
\* feed without channel metadata leaves both empty, a feed without entries
\* leaves no record.
C13_NoCarryOver ==
    [][last_update'.fetched =>
        \E now \in PollInstants :
        \E info \in {_generate_channel_info(last_update'.parsed_feed.feed, now)} :
            LET parsed_feed == last_update'.parsed_feed
            IN /\ channel' # EmptyDict => (~info.raised /\ channel' = info.val)
               /\ Len(entries') <= C13_Count(parsed_feed)
               /\ \A i \in 1..Len(entries') :
                    \E shaped \in {_generate_sensor_entry(parsed_feed.entries[i], now)} :
                        ~shaped.raised /\ entries'[i] = shaped.val
               /\ (last_update'.result = "returned" /\ DOMAIN parsed_feed.feed # {}) =>
                    /\ ~info.raised
                    /\ channel' = info.val
                    /\ Len(entries') = C13_Count(parsed_feed)
               /\ DOMAIN parsed_feed.feed = {} =>
                    channel' = EmptyDict /\ entries' = <<>>
               /\ parsed_feed.entries = <<>> => entries' = <<>>]_vars

\* an earlier poll filled the channel and set the state to the number of
\* its entries; the last poll fetched a feed whose channel date overflows:
\* nothing of the earlier poll is left in the channel and in the entries
C13_Witness ==
    /\ last_update.fetched
    /\ last_update.result = "raised"
    /\ last_update.parsed_feed.feed = CHANNEL_BAD_DATE
    /\ native_value.kind = "int"
    /\ native_value.val > 0
    /\ channel = EmptyDict
    /\ entries = <<>>

\* C15: a poll is all or nothing: whenever update ends with an exception,
\* from the fetch or from the shaping of the channel info or of an entry
\* (an entry with an empty links list, say), the channel, the entries and
\* the state are exactly what they were before the poll.
C15_RaisedPollKeepsSnapshot ==
    [][last_update'.result = "raised" =>
            /\ channel' = channel
            /\ entries' = entries
            /\ native_value' = native_value]_vars

\* ------------------------------------------------------------------------
\* Properties of the options and the reload
\* ------------------------------------------------------------------------
\* the value of the key for the entry: of its options, else of its data,
\* else the default
C14_Value(entry, key, default) ==
    IF key \in DOMAIN entry.options THEN entry.options[key]
    ELSE IF key \in DOMAIN entry.data THEN entry.data[key]
    ELSE default

\* s[a..b] is an item of the comma-separated text s: it has no comma, it
\* starts and ends with something that is no whitespace, and only whitespace
\* lies between it and the comma or the end of the text on either side
C14_IsItem(s, a, b) ==
    /\ \A x \in a..b : s[x] # ","
    /\ s[a] \notin Whitespace
    /\ s[b] \notin Whitespace
    /\ \E lo \in 0..(a - 1) :
            /\ lo = 0 \/ s[lo] = ","
            /\ \A x \in (lo + 1)..(a - 1) : s[x] \in Whitespace
    /\ \E hi \in (b + 1)..(Len(s) + 1) :
            /\ hi = Len(s) + 1 \/ s[hi] = ","
            /\ \A x \in (b + 1)..(hi - 1) : s[x] \in Whitespace

\* the keys an inclusions or exclusions value names
C14_Keys(val) ==
    IF val.kind = "str"
    THEN {Text(SubSeq(val.val, p[1], p[2])) :
            p \in {q \in (1..Len(val.val)) \X (1..Len(val.val)) :
                        q[1] <= q[2] /\ C14_IsItem(val.val, q[1], q[2])}}
    ELSE {val.val[i] : i \in 1..Len(val.val)}

C9_FailedCheckMakesNoEntry ==
    [][/\ flow_result'.check \notin {"ok", "none"} =>
            /\ flow_result'.type = "form"
            /\ flow_result'.errors = [base |-> "cannot_connect"]
            /\ config_entries' = config_entries
       /\ config_entries' # config_entries =>
            /\ flow_result'.check = "ok"
            /\ flow_result'.type = "create_entry"
            /\ config_entries' = config_entries \cup
                    {[unique_id |-> flow_result'.user_input.feed_url,
                      title |-> flow_result'.user_input.name,
                      data |-> flow_result'.user_input]}]_vars

\* the check of a submitted feed failed after another feed was configured
C9_Witness ==
    /\ flow_result # NoFlow
    /\ flow_result.check \in CheckOutcomes \ {"ok"}
    /\ flow_result.type = "form"
    /\ flow_result.errors = [base |-> "cannot_connect"]
    /\ config_entries # {}
    /\ \A e \in config_entries : e.unique_id # flow_result.user_input.feed_url

====
